---- MODULE Spec2Model ----
(***************************************************************************)
(* Task lifecycle manager of src/api.py: TaskManager (the Coordinator),    *)
(* its background thread _run_task (the Runner) and RedisManager (the      *)
(* Record Store adapter over one Redis hash per task).                     *)
(*                                                                         *)
(* Every store call (one REST round trip to Redis) is one atomic step; the *)
(* python statements between two store calls touch thread-local data only  *)
(* and are folded into the neighbouring step.  A "with self._lock" block   *)
(* is one atomic step.  Timestamps are readings of a clock that never goes *)
(* back; None (stored as the empty string) is 0.                           *)
(*                                                                         *)
(* Left out: the 24 hour expiry that create_task and update_task put on    *)
(* the key (behaviours here are shorter than a day), get_all_tasks (reads  *)
(* only), and a store fault in the first read of stop_task, delete_task    *)
(* and get_task_info (the call raises before it has changed anything).     *)
(***************************************************************************)
EXTENDS Integers, FiniteSets, Sequences, Bags, TLC

\* ------------------------------------------------------------------ bounds
\* The Runner's loop is unbounded: it is cut after MaxRequests invocations, at
\* the head of the for loop.  A Runner whose Event is set is not cut there: it
\* leaves its loop.
MaxRequests == 3
\* The clock is cut at MaxClock readings.
MaxClock == 2

\* ------------------------------------------------------------- input sets
\* generate_task_id yields ids that never repeat; one task is followed, since
\* every operation but get_all_tasks touches the hash and the registry entry
\* of a single id.
TaskIds == {"taskid-0001"}
\* Threads of the front-end calling the TaskManager concurrently.  They are
\* interchangeable and keep nothing between calls, so the state holds the bag
\* of calls in progress, at most one per thread.
Callers == {"c1", "c2"}
Phones == {"9876543210"}
Intervals == {60}

\* TaskManager.SERVICES, by service name, in order.
SERVICES == <<"Hungama", "ShemarooMe", "Unacademy">>

ServiceNames == {SERVICES[i] : i \in 1..Len(SERVICES)}

\* TaskStatus values.
PENDING == "pending"
RUNNING == "running"
STOPPED == "stopped"
COMPLETED == "completed"
ERROR == "error"

\* Python None; RedisManager writes it as "" and get_task reads "" back as None.
None == 0
\* last_activity written on the fault path: the string "Error: ...".
ErrorText == -1

VARIABLES
    store,          \* Redis: task id -> hash (field -> value); empty hash = no key
    active_tasks,   \* TaskManager.active_tasks: ids that have a registered Event
    stop_event,     \* the flag of the threading.Event made for each task
    now,            \* the clock datetime.now() reads
    calls,          \* the bag of control calls in progress, each at its position
    ret,            \* the return made by the last step, if it was a return
    runner,         \* each task's _run_task thread: position and locals
    hist            \* history of each task: what has happened so far

vars == <<store, active_tasks, stop_event, now, calls, ret, runner, hist>>

\* ------------------------------------------------------------ Redis hashes
\* A key that does not exist: HGETALL returns an empty mapping.
NoRecord == [f \in {} |-> 0]

Exists(h) == DOMAIN h # {}

\* HSET key mapping: sets the given fields, keeps the others, creates the key.
HSet(h, m) ==
    [f \in (DOMAIN h) \cup (DOMAIN m) |-> IF f \in DOMAIN m THEN m[f] ELSE h[f]]

\* dict.get(f, d) on what get_task returned.
Get(h, f, d) == IF f \in DOMAIN h THEN h[f] ELSE d

\* services_stats of a fresh record: the empty dict.
EmptyStats == [s \in {} |-> [success |-> 0, failed |-> 0]]

\* The Runner's in-memory dict: one zero entry per service.
ZeroStats == [s \in ServiceNames |-> [success |-> 0, failed |-> 0]]

\* RedisManager.create_task: the record written at creation.
create_task(task_id, phone_number, interval) ==
    [task_id |-> task_id,
     phone_number |-> phone_number,
     interval |-> interval,
     status |-> PENDING,
     created_at |-> now',
     started_at |-> None,
     stopped_at |-> None,
     iterations |-> 0,
     total_requests |-> 0,
     successful_requests |-> 0,
     failed_requests |-> 0,
     last_activity |-> None,
     services_stats |-> EmptyStats]

\* RedisManager.get_task: the parsed hash, or None (NoRecord) for no data.
get_task(t) == store[t]

\* RedisManager.update_task: HSET of the updates on the task's key.
update_task(t, updates) == [store EXCEPT ![t] = HSet(@, updates)]

\* RedisManager.delete_task: DEL of the task's key.
delete_task_key(t) == [store EXCEPT ![t] = NoRecord]

\* ------------------------------------------------------------------ state
NoRet == [op |-> "none", task |-> "none", result |-> "none"]

\* How send_request ends: with the service's HTTP response, with an httpx
\* timeout or request error, or with any other exception.  It catches all of
\* them and returns a ServiceResponse, the last two with its error set.
Responses == {"response", "request_error", "exception"}

\* ServiceResponse.__post_init__: success = error is None.
Success(response) == response = "response"

NoRunner ==
    [pc |-> "none", iteration |-> 0, idx |-> 0, services_stats |-> EmptyStats,
     response |-> "none", task |-> NoRecord]

\* History: top is the highest total_requests a record of the task has held.
NoHist ==
    [created |-> FALSE, stop_ok |-> FALSE, deleted |-> FALSE, stop_at |-> "none",
     top |-> 0]

Init ==
    /\ store = [t \in TaskIds |-> NoRecord]
    /\ active_tasks = {}
    /\ stop_event = [t \in TaskIds |-> FALSE]
    /\ now = 1
    /\ calls = EmptyBag
    /\ ret = NoRet
    /\ runner = [t \in TaskIds |-> NoRunner]
    /\ hist = [t \in TaskIds |-> NoHist]

\* datetime.now(): a reading ts of the clock, not earlier than the last one.
\* (Only the order of the readings matters, so the clock moves when it is read.)
Reads(ts) ==
    /\ ts \in {now, now + 1}
    /\ ts <= MaxClock
    /\ now' = ts

\* A front-end thread is free to make a call.
Idle == BagCardinality(calls) < Cardinality(Callers)

\* A call in progress: its position, its task, and (history) whether the
\* Runner has been between the same two Actions of a pass since it began.
Call(t, pc, win) == [pc |-> pc, task |-> t, win |-> win]

\* A call is made and stays in progress at pc.
Begin(t, pc, win) ==
    /\ calls' = calls (+) SetToBag({Call(t, pc, win)})
    /\ ret' = NoRet

\* The call k in progress moves on to pc.
Goto(k, pc) ==
    /\ calls' = (calls (-) SetToBag({k})) (+) SetToBag({Call(k.task, pc, k.win)})
    /\ ret' = NoRet

\* The call k in progress returns.
Return(k, op, result) ==
    /\ calls' = calls (-) SetToBag({k})
    /\ ret' = [op |-> op, task |-> k.task, result |-> result]

\* A call is made and returns in the same step.
Answer(op, t, result) ==
    /\ calls' = calls
    /\ ret' = [op |-> op, task |-> t, result |-> result]

\* The calls in progress at pc.
InProgress(pc) == {k \in BagToSet(calls) : k.pc = pc}

\* ------------------------------------------------------------ Coordinator
\* Number of Action invocations the Runner of t has made so far.
Invoked(t) ==
    LET st == runner[t].services_stats
        count[S \in SUBSET ServiceNames] ==
            IF S = {} THEN 0
            ELSE LET s == CHOOSE x \in S : TRUE
                 IN  st[s].success + st[s].failed + count[S \ {s}]
    IN  count[DOMAIN st]

\* start_task, first step: generate_task_id and RedisManager.create_task
\* (HSET, then EXPIRE).  Either store call may raise; when EXPIRE raises the
\* hash is already written.
StartCreate ==
    /\ Idle
    /\ \E t \in TaskIds, phone_number \in Phones, interval \in Intervals :
        /\ ~hist[t].created
        /\ hist' = [hist EXCEPT ![t].created = TRUE]
        /\ \/ /\ \E ts \in 1..MaxClock : Reads(ts)
              /\ store' = [store EXCEPT ![t] = HSet(@, create_task(t, phone_number, interval))]
              /\ \/ Begin(t, "start_register", FALSE)
                 \/ Answer("start_task", t, "StoreUnavailable")
           \/ /\ UNCHANGED <<store, now>>
              /\ Answer("start_task", t, "StoreUnavailable")
    /\ UNCHANGED <<active_tasks, stop_event, runner>>

\* start_task: a fresh Event, registered under the lock.
StartRegister ==
    \E k \in InProgress("start_register") :
        /\ stop_event' = [stop_event EXCEPT ![k.task] = FALSE]
        /\ active_tasks' = active_tasks \cup {k.task}
        /\ Goto(k, "start_thread")
        /\ UNCHANGED <<store, now, runner, hist>>

\* start_task: thread.start() and the return, without waiting for the thread.
StartThread ==
    \E k \in InProgress("start_thread") :
        /\ runner' = [runner EXCEPT ![k.task].pc = "start"]
        /\ Return(k, "start_task", "started")
        /\ UNCHANGED <<store, active_tasks, stop_event, now, hist>>

\* Where the Runner of t is with respect to its next Action invocation of the
\* pass: one Action of the pass is recorded and the cancellation check of the
\* next one is still to come ("recorded"), or that check is passed and the
\* invocation is still to come ("checked"), or elsewhere ("other").
Position(t) ==
    IF \/ runner[t].pc = "wait" /\ runner[t].idx < Len(SERVICES)
       \/ runner[t].pc = "for" /\ runner[t].idx \in 2..Len(SERVICES)
    THEN "recorded"
    ELSE IF runner[t].pc = "send" /\ runner[t].idx > 1 THEN "checked"
    ELSE "other"

\* Mutant of StopRefused: only a Stopped task is refused.
StopRefused_OnlyStopped(task) == task.status = STOPPED

\* stop_task's guard on the record it read: the status is not Running.
StopRefused(task) == task.status # RUNNING

\* stop_task, first step: get_task and the two guards.  (A record without a
\* status field makes task["status"] raise KeyError.)
StopGet(t) ==
    /\ Idle
    /\ LET task == get_task(t) IN
        \/ /\ ~Exists(task)
           /\ Answer("stop_task", t, "NotFound")
        \/ /\ Exists(task)
           /\ "status" \notin DOMAIN task
           /\ Answer("stop_task", t, "KeyError")
        \/ /\ Exists(task)
           /\ "status" \in DOMAIN task
           /\ IF StopRefused(task)
              THEN Answer("stop_task", t, "InvalidState")
              ELSE Begin(t, "stop_lock", Position(t) # "other")
    /\ UNCHANGED <<store, active_tasks, stop_event, now, runner, hist>>

\* Mutant of StopLock: the registry entry is dropped, the Event is not set.
StopLock_NoSignal ==
    \E k \in InProgress("stop_lock") :
        /\ active_tasks' = active_tasks \ {k.task}
        /\ Goto(k, "stop_write")
        /\ UNCHANGED <<store, stop_event, now, runner, hist>>

\* stop_task, under the lock: set the Event and drop the registry entry.
StopLock ==
    \E k \in InProgress("stop_lock") :
        /\ IF k.task \in active_tasks
           THEN /\ stop_event' = [stop_event EXCEPT ![k.task] = TRUE]
                /\ active_tasks' = active_tasks \ {k.task}
           ELSE UNCHANGED <<stop_event, active_tasks>>
        /\ Goto(k, "stop_write")
        /\ UNCHANGED <<store, now, runner, hist>>

\* Mutant of StopUpdates: stop_task stamps last_activity too.
StopUpdates_WithActivity == [status |-> STOPPED, stopped_at |-> now', last_activity |-> now']

\* Mutant of StopUpdates: the status is left out of the write.
StopUpdates_NoStatus == [stopped_at |-> now']

\* The fields stop_task writes.
StopUpdates == [status |-> STOPPED, stopped_at |-> now']

\* stop_task, last step: update_task and the return.
StopWrite ==
    \E k \in InProgress("stop_write") :
        /\ \/ /\ \E ts \in 1..MaxClock : Reads(ts)
              /\ store' = update_task(k.task, StopUpdates)
              /\ Return(k, "stop_task", "stopped")
              /\ hist' = [hist EXCEPT
                            ![k.task].stop_ok = TRUE,
                            ![k.task].stop_at =
                                IF @ = "recorded" THEN @
                                ELSE IF k.win THEN Position(k.task) ELSE "other"]
           \/ /\ Return(k, "stop_task", "StoreUnavailable")
              /\ UNCHANGED <<store, now, hist>>
        /\ UNCHANGED <<active_tasks, stop_event, runner>>

\* The fields get_task_info reads with task[...]: a missing one is a KeyError.
InfoKeys == {"task_id", "phone_number", "interval", "status", "created_at"}

\* get_task_info: one get_task, then the TaskInfo built from it.
GetTaskInfo(t) ==
    /\ Idle
    /\ LET task == get_task(t) IN
        \/ /\ ~Exists(task)
           /\ Answer("get_task_info", t, "NotFound")
        \/ /\ Exists(task)
           /\ InfoKeys \subseteq DOMAIN task
           /\ Answer("get_task_info", t, "TaskInfo")
        \/ /\ Exists(task)
           /\ ~(InfoKeys \subseteq DOMAIN task)
           /\ Answer("get_task_info", t, "KeyError")
    /\ UNCHANGED <<store, active_tasks, stop_event, now, runner, hist>>

\* Mutant of DeleteRefused: the guard tests for the wrong status.
DeleteRefused_WrongStatus(task) == task.status = STOPPED

\* delete_task's guard on the record it read: the status is Running.
DeleteRefused(task) == task.status = RUNNING

\* delete_task, first step: get_task and the two guards.
DeleteGet(t) ==
    /\ Idle
    /\ LET task == get_task(t) IN
        \/ /\ ~Exists(task)
           /\ Answer("delete_task", t, "NotFound")
        \/ /\ Exists(task)
           /\ "status" \notin DOMAIN task
           /\ Answer("delete_task", t, "KeyError")
        \/ /\ Exists(task)
           /\ "status" \in DOMAIN task
           /\ IF DeleteRefused(task)
              THEN Answer("delete_task", t, "InvalidState")
              ELSE Begin(t, "delete_del", FALSE)
    /\ UNCHANGED <<store, active_tasks, stop_event, now, runner, hist>>

\* delete_task, last step: RedisManager.delete_task and the return.
DeleteDel ==
    \E k \in InProgress("delete_del") :
        /\ \/ /\ store' = delete_task_key(k.task)
              /\ Return(k, "delete_task", "deleted")
              /\ hist' = [hist EXCEPT ![k.task].deleted = TRUE]
           \/ /\ Return(k, "delete_task", "StoreUnavailable")
              /\ UNCHANGED <<store, hist>>
        /\ UNCHANGED <<active_tasks, stop_event, now, runner>>

\* ----------------------------------------------------------------- Runner
\* A position of the thread, with the locals kept.
At(t, pc) == [runner EXCEPT ![t].pc = pc]

\* The fields _run_task writes first.
StartUpdates == [status |-> RUNNING, started_at |-> now']

\* _run_task, first store call (outside the try) and the locals' set-up.  When
\* the call raises, the thread dies: neither except nor finally runs.
RunStart(t) ==
    /\ runner[t].pc = "start"
    /\ \/ /\ \E ts \in 1..MaxClock : Reads(ts)
          /\ store' = update_task(t, StartUpdates)
          /\ runner' = [runner EXCEPT ![t].pc = "client",
                                      ![t].iteration = 0,
                                      ![t].services_stats = ZeroStats]
       \/ /\ runner' = At(t, "dead")
          /\ UNCHANGED <<store, now>>
    /\ ret' = NoRet
    /\ UNCHANGED <<active_tasks, stop_event, calls, hist>>

\* Entering "with httpx.Client(...)", inside the try: it may raise.
RunClient(t) ==
    /\ runner[t].pc = "client"
    /\ \/ runner' = At(t, "while")
       \/ runner' = At(t, "except")
    /\ ret' = NoRet
    /\ UNCHANGED <<store, active_tasks, stop_event, now, calls, hist>>

\* "while not stop_event.is_set()": leave the loop, or begin a pass.
RunWhile(t) ==
    /\ runner[t].pc = "while"
    /\ IF stop_event[t]
       THEN runner' = At(t, "finally")
       ELSE runner' = [runner EXCEPT ![t].pc = "for",
                                     ![t].iteration = @ + 1,
                                     ![t].idx = 1]
    /\ ret' = NoRet
    /\ UNCHANGED <<store, active_tasks, stop_event, now, calls, hist>>

\* Mutant of RunFor: the for loop does not look at the Event.
RunFor_NoCheck(t) ==
    /\ runner[t].pc = "for"
    /\ IF runner[t].idx > Len(SERVICES)
       THEN runner' = [runner EXCEPT ![t].pc = "while", ![t].response = "none"]
       ELSE /\ Invoked(t) < MaxRequests
            /\ runner' = [runner EXCEPT ![t].pc = "send", ![t].response = "none"]
    /\ ret' = NoRet
    /\ UNCHANGED <<store, active_tasks, stop_event, now, calls, hist>>

\* The for loop's head: the pass is over, or cancellation is seen (break), or
\* the next service is due.  (The last response is not used any more.)
RunFor(t) ==
    /\ runner[t].pc = "for"
    /\ IF runner[t].idx > Len(SERVICES) \/ stop_event[t]
       THEN runner' = [runner EXCEPT ![t].pc = "while", ![t].response = "none"]
       ELSE /\ Invoked(t) < MaxRequests
            /\ runner' = [runner EXCEPT ![t].pc = "send", ![t].response = "none"]
    /\ ret' = NoRet
    /\ UNCHANGED <<store, active_tasks, stop_event, now, calls, hist>>

\* The service's counts after one more response.
Counted(st, ok) ==
    IF ok THEN [st EXCEPT !.success = @ + 1] ELSE [st EXCEPT !.failed = @ + 1]

\* Mutant of RunSend: send_request lets an unexpected exception through.
RunSend_ExceptionEscapes(t) ==
    /\ runner[t].pc = "send"
    /\ \E response \in Responses :
        IF response = "exception"
        THEN runner' = [runner EXCEPT ![t].pc = "except", ![t].response = response]
        ELSE runner' = [runner EXCEPT
                          ![t].pc = "get",
                          ![t].response = response,
                          ![t].services_stats[SERVICES[runner[t].idx]] =
                              Counted(@, Success(response))]
    /\ calls' = BagOfAll(LAMBDA k : IF k.task = t THEN [k EXCEPT !.win = FALSE] ELSE k, calls)
    /\ ret' = NoRet
    /\ UNCHANGED <<store, active_tasks, stop_event, now, hist>>

\* service.send_request() (it returns a ServiceResponse whatever happens, an
\* exception included) and the in-memory counts.
RunSend(t) ==
    /\ runner[t].pc = "send"
    /\ \E response \in Responses :
        runner' = [runner EXCEPT
                     ![t].pc = "get",
                     ![t].response = response,
                     ![t].services_stats[SERVICES[runner[t].idx]] =
                         Counted(@, Success(response))]
    /\ calls' = BagOfAll(LAMBDA k : IF k.task = t THEN [k EXCEPT !.win = FALSE] ELSE k, calls)
    /\ ret' = NoRet
    /\ UNCHANGED <<store, active_tasks, stop_event, now, hist>>

\* "task = self.redis.get_task(task_id)" and "if task:".
RunGet(t) ==
    /\ runner[t].pc = "get"
    /\ \/ runner' = [runner EXCEPT ![t].pc = IF Exists(get_task(t)) THEN "update" ELSE "wait",
                                   ![t].task = get_task(t)]
       \/ runner' = At(t, "except")
    /\ ret' = NoRet
    /\ UNCHANGED <<store, active_tasks, stop_event, now, calls, hist>>

\* Mutant of ProgressUpdates: a failure is added to the total only.
ProgressUpdates_FailedNotCounted(t) ==
    LET task == runner[t].task
        ok == Success(runner[t].response)
    IN  [iterations |-> runner[t].iteration,
         total_requests |-> Get(task, "total_requests", 0) + 1,
         successful_requests |-> Get(task, "successful_requests", 0) + (IF ok THEN 1 ELSE 0),
         failed_requests |-> Get(task, "failed_requests", 0),
         last_activity |-> now',
         services_stats |-> runner[t].services_stats]

\* The fields the Runner writes after each request.
ProgressUpdates(t) ==
    LET task == runner[t].task
        ok == Success(runner[t].response)
    IN  [iterations |-> runner[t].iteration,
         total_requests |-> Get(task, "total_requests", 0) + 1,
         successful_requests |-> Get(task, "successful_requests", 0) + (IF ok THEN 1 ELSE 0),
         failed_requests |-> Get(task, "failed_requests", 0) + (IF ok THEN 0 ELSE 1),
         last_activity |-> now',
         services_stats |-> runner[t].services_stats]

\* The larger of two numbers.
Highest(a, b) == IF a >= b THEN a ELSE b

\* Mutant of RunUpdate: once the Event is set the progress write is skipped.
RunUpdate_SkipWhenStopped(t) ==
    /\ runner[t].pc = "update"
    /\ \/ /\ ~stop_event[t]
          /\ \E ts \in 1..MaxClock : Reads(ts)
          /\ store' = update_task(t, ProgressUpdates(t))
          /\ runner' = [runner EXCEPT ![t].pc = "wait", ![t].task = NoRecord]
          /\ hist' = [hist EXCEPT ![t].top = Highest(@, ProgressUpdates(t).total_requests)]
       \/ /\ stop_event[t]
          /\ runner' = [runner EXCEPT ![t].pc = "wait", ![t].task = NoRecord]
          /\ UNCHANGED <<store, now, hist>>
       \/ /\ runner' = [runner EXCEPT ![t].pc = "except", ![t].task = NoRecord]
          /\ UNCHANGED <<store, now, hist>>
    /\ ret' = NoRet
    /\ UNCHANGED <<active_tasks, stop_event, calls>>

\* The update_task after each request.
RunUpdate(t) ==
    /\ runner[t].pc = "update"
    /\ \/ /\ \E ts \in 1..MaxClock : Reads(ts)
          /\ store' = update_task(t, ProgressUpdates(t))
          /\ runner' = [runner EXCEPT ![t].pc = "wait", ![t].task = NoRecord]
          /\ hist' = [hist EXCEPT ![t].top = Highest(@, ProgressUpdates(t).total_requests)]
       \/ /\ runner' = [runner EXCEPT ![t].pc = "except", ![t].task = NoRecord]
          /\ UNCHANGED <<store, now, hist>>
    /\ ret' = NoRet
    /\ UNCHANGED <<active_tasks, stop_event, calls>>

\* Mutant of RunWait: the loop moves on by two services.
RunWait_SkipsService(t) ==
    /\ runner[t].pc = "wait"
    /\ runner' = [runner EXCEPT ![t].pc = "for", ![t].idx = @ + 2, ![t].task = NoRecord]
    /\ ret' = NoRet
    /\ UNCHANGED <<store, active_tasks, stop_event, now, calls, hist>>

\* Mutant of RunWait: the wait goes on for as long as the Event is set.
RunWait_BlocksOnceSet(t) ==
    /\ runner[t].pc = "wait"
    /\ ~stop_event[t]
    /\ runner' = [runner EXCEPT ![t].pc = "for", ![t].idx = @ + 1, ![t].task = NoRecord]
    /\ ret' = NoRet
    /\ UNCHANGED <<store, active_tasks, stop_event, now, calls, hist>>

\* Mutant of RunWait: the wait has no timeout and ends by the Event only.
RunWait_NoTimeout(t) ==
    /\ runner[t].pc = "wait"
    /\ stop_event[t]
    /\ runner' = [runner EXCEPT ![t].pc = "for", ![t].idx = @ + 1, ![t].task = NoRecord]
    /\ ret' = NoRet
    /\ UNCHANGED <<store, active_tasks, stop_event, now, calls, hist>>

\* "if not stop_event.is_set(): stop_event.wait(interval)": the wait ends by
\* the timeout or by the Event; either way the for loop goes on.
RunWait(t) ==
    /\ runner[t].pc = "wait"
    /\ runner' = [runner EXCEPT ![t].pc = "for", ![t].idx = @ + 1, ![t].task = NoRecord]
    /\ ret' = NoRet
    /\ UNCHANGED <<store, active_tasks, stop_event, now, calls, hist>>

\* The fields the except block writes.
ErrorUpdates == [status |-> ERROR, stopped_at |-> now', last_activity |-> ErrorText]

\* The except block: one update_task, which may raise too.
RunExcept(t) ==
    /\ runner[t].pc = "except"
    /\ \/ /\ \E ts \in 1..MaxClock : Reads(ts)
          /\ store' = update_task(t, ErrorUpdates)
       \/ UNCHANGED <<store, now>>
    /\ runner' = At(t, "finally")
    /\ ret' = NoRet
    /\ UNCHANGED <<active_tasks, stop_event, calls, hist>>

\* The finally block, under the lock: drop the registry entry if present.
RunFinally(t) ==
    /\ runner[t].pc = "finally"
    /\ active_tasks' = active_tasks \ {t}
    /\ runner' = At(t, "done")
    /\ ret' = NoRet
    /\ UNCHANGED <<store, stop_event, now, calls, hist>>

\* ---------------------------------------------------------- specification
Next ==
    \/ StartCreate
    \/ StartRegister
    \/ StartThread
    \/ \E t \in TaskIds : StopGet(t)
    \/ StopLock
    \/ StopWrite
    \/ \E t \in TaskIds : GetTaskInfo(t)
    \/ \E t \in TaskIds : DeleteGet(t)
    \/ DeleteDel
    \/ \E t \in TaskIds : RunStart(t)
    \/ \E t \in TaskIds : RunClient(t)
    \/ \E t \in TaskIds : RunWhile(t)
    \/ \E t \in TaskIds : RunFor(t)
    \/ \E t \in TaskIds : RunSend(t)
    \/ \E t \in TaskIds : RunGet(t)
    \/ \E t \in TaskIds : RunUpdate(t)
    \/ \E t \in TaskIds : RunWait(t)
    \/ \E t \in TaskIds : RunExcept(t)
    \/ \E t \in TaskIds : RunFinally(t)

Spec == Init /\ [][Next]_vars

\* Any step of the thread of t.
Runner(t) ==
    \/ RunStart(t)
    \/ RunClient(t)
    \/ RunWhile(t)
    \/ RunFor(t)
    \/ RunSend(t)
    \/ RunGet(t)
    \/ RunUpdate(t)
    \/ RunWait(t)
    \/ RunExcept(t)
    \/ RunFinally(t)

\* The started thread is scheduled, and each call it makes (store, service,
\* Event.wait with its timeout) comes back, normally or with an exception.
\* Control calls are made or not as the front-end pleases.
FairSpec == Spec /\ \A t \in TaskIds : WF_vars(Runner(t))

\* ------------------------------------------------------------ properties
\* The record of t holds field f.
Has(t, f) == f \in DOMAIN store[t]

\* The persisted status of t is st.
StatusIs(t, st) == Has(t, "status") /\ store[t].status = st

\* A counter of a record as a reader sees it (dict.get with default 0).
Counter(h, f) == Get(h, f, 0)

Counters(h) ==
    <<Counter(h, "iterations"), Counter(h, "total_requests"),
      Counter(h, "successful_requests"), Counter(h, "failed_requests"),
      Get(h, "services_stats", EmptyStats)>>

\* Sum over the services of a record's per-service counts of one kind.
StatsSum(h, kind) ==
    LET st == Get(h, "services_stats", EmptyStats)
        sum[S \in SUBSET ServiceNames] ==
            IF S = {} THEN 0
            ELSE LET s == CHOOSE x \in S : TRUE
                 IN  st[s][kind] + sum[S \ {s}]
    IN  sum[DOMAIN st]

\* The thread of t has ended (normally, or killed by an exception).
RunnerExited(t) == runner[t].pc \in {"done", "dead"}

\* The thread of t has written status Running and has not entered its except
\* or finally block.
RunnerRunning(t) ==
    runner[t].pc \in {"client", "while", "for", "send", "get", "update", "wait"}

\* This step is the first step of a stop_task(t) call.
StopCalled(t) ==
    \/ calls' = calls /\ ret'.op = "stop_task" /\ ret'.task = t
    \/ \E w \in BOOLEAN : calls' = calls (+) SetToBag({Call(t, "stop_lock", w)})

\* This step is the first step of a delete_task(t) call.
DeleteCalled(t) ==
    \/ calls' = calls /\ ret'.op = "delete_task" /\ ret'.task = t
    \/ calls' = calls (+) SetToBag({Call(t, "delete_del", FALSE)})

\* This step returns an error from a control call and writes nothing.
Refuses(result) ==
    /\ ret'.result = result
    /\ UNCHANGED <<store, active_tasks, stop_event, calls>>

\* C1 (as claimed): for a task on which stop_task returned success, once the
\* Runner has exited the stored record, while there is one, has status
\* Stopped and stopped_at >= started_at.
C1_StoppedAfterStop ==
    \A t \in TaskIds :
        (hist[t].stop_ok /\ RunnerExited(t) /\ Exists(store[t])) =>
            /\ StatusIs(t, STOPPED)
            /\ Has(t, "started_at") /\ store[t].stopped_at >= store[t].started_at

\* C2: every stored record has total_requests = successful_requests +
\* failed_requests.
C2_TotalIsSum ==
    \A t \in TaskIds :
        Exists(store[t]) =>
            Counter(store[t], "total_requests") =
                Counter(store[t], "successful_requests") + Counter(store[t], "failed_requests")

\* C2 witness: a record that counts successes and failures together.
C2_Witness ==
    \E t \in TaskIds :
        /\ Has(t, "total_requests")
        /\ store[t].total_requests >= 3
        /\ store[t].successful_requests >= 1
        /\ store[t].failed_requests >= 1

\* C3 (as claimed): in every stored record the per-service success counts add
\* up to successful_requests and the per-service failed counts to
\* failed_requests.
C3_StatsAddUp ==
    \A t \in TaskIds :
        Exists(store[t]) =>
            /\ StatsSum(store[t], "success") = Counter(store[t], "successful_requests")
            /\ StatsSum(store[t], "failed") = Counter(store[t], "failed_requests")

\* C4: a delete_task call that finds the status Running returns InvalidState
\* and leaves store and registry as they were; one that finds no record
\* returns NotFound.
C4_DeleteGuard ==
    [][\A t \in TaskIds :
        DeleteCalled(t) =>
            /\ StatusIs(t, RUNNING) => Refuses("InvalidState")
            /\ ~Exists(store[t]) => Refuses("NotFound")]_vars

\* C4 witness: delete_task has just been refused on a Running, registered task.
C4_Witness ==
    \E t \in TaskIds :
        /\ ret = [op |-> "delete_task", task |-> t, result |-> "InvalidState"]
        /\ StatusIs(t, RUNNING)
        /\ t \in active_tasks

\* C5: a stop_task call made after a stop_task on the same task returned
\* success (the record not having been deleted) returns InvalidState and
\* changes neither the record nor the registry.
C5_SecondStop ==
    [][\A t \in TaskIds :
        (hist[t].stop_ok /\ ~hist[t].deleted /\ StopCalled(t)) => Refuses("InvalidState")]_vars

\* C5 witness: the second stop_task has just been refused.
C5_Witness ==
    \E t \in TaskIds :
        /\ hist[t].stop_ok /\ ~hist[t].deleted
        /\ ret = [op |-> "stop_task", task |-> t, result |-> "InvalidState"]

\* C6: stop_task returns NotFound when there is no record and InvalidState
\* when the record's status is not Running, and in both cases sets no Event,
\* removes no registry entry and writes nothing.
C6_StopGuard ==
    [][\A t \in TaskIds :
        StopCalled(t) =>
            /\ ~Exists(store[t]) => Refuses("NotFound")
            /\ (Has(t, "status") /\ store[t].status # RUNNING) => Refuses("InvalidState")]_vars

\* C6 witness: stop_task has just been refused on a Pending task whose Event
\* is registered.
C6_Witness ==
    \E t \in TaskIds :
        /\ ret = [op |-> "stop_task", task |-> t, result |-> "InvalidState"]
        /\ StatusIs(t, PENDING)
        /\ t \in active_tasks

\* C7 (as claimed): the record start_task persists, before any write of the
\* Runner, has status Pending, zero counters, no started_at and stopped_at,
\* and one zero entry per service in services_stats.
C7_CreatedRecord ==
    \A t \in TaskIds :
        (Exists(store[t]) /\ runner[t].pc \in {"none", "start"} /\ ~hist[t].deleted) =>
            /\ store[t].status = PENDING
            /\ store[t].iterations = 0
            /\ store[t].total_requests = 0
            /\ store[t].successful_requests = 0
            /\ store[t].failed_requests = 0
            /\ store[t].started_at = None
            /\ store[t].stopped_at = None
            /\ store[t].services_stats = ZeroStats

\* C8 (as claimed): a Runner that has written Running, is executing and whose
\* Event is not set has its record in the store.
C8_RunningNeverDeleted ==
    \A t \in TaskIds :
        (RunnerRunning(t) /\ ~stop_event[t]) => Exists(store[t])

\* C9 (as claimed): once stop_task, called and returned between the record of
\* one Action and the start of the next Action of the pass, has returned
\* success, no Action is invoked any more.
C9_NoActionAfterStop ==
    [][\A t \in TaskIds :
        hist[t].stop_at \in {"recorded", "checked"} => Invoked(t)' = Invoked(t)]_vars

\* C9 (amended): once stop_task, called and returned between the record of
\* one Action and the cancellation check that precedes the next Action of the
\* pass, has returned success, no Action is invoked any more and, until the
\* record is deleted, its status is Stopped and its counters keep their values.
C9_NoActionAfterStopBeforeCheck ==
    [][\A t \in TaskIds :
        hist[t].stop_at = "recorded" =>
            /\ Invoked(t)' = Invoked(t)
            /\ ~hist[t].deleted => StatusIs(t, STOPPED)
            /\ ~hist'[t].deleted => Counters(store'[t]) = Counters(store[t])]_vars

\* C9 witness: stopped after the first Action of the first pass, the Runner
\* has ended with that one request counted.
C9_Witness ==
    \E t \in TaskIds :
        /\ hist[t].stop_at = "recorded"
        /\ runner[t].pc = "done"
        /\ StatusIs(t, STOPPED)
        /\ Has(t, "total_requests") /\ store[t].total_requests = 1
        /\ Invoked(t) = 1

\* The edges of the status state machine.
StatusEdges == {<<PENDING, RUNNING>>, <<RUNNING, STOPPED>>, <<RUNNING, ERROR>>, <<RUNNING, COMPLETED>>}

\* C10 (as claimed): the persisted status changes only along the edges of the
\* state machine; Stopped and Error never change.
C10_StatusEdges ==
    [][\A t \in TaskIds :
        (Has(t, "status") /\ "status" \in DOMAIN store'[t] /\ store'[t].status # store[t].status) =>
            <<store[t].status, store'[t].status>> \in StatusEdges]_vars

\* The thread of t has finished a pass in which it invoked every service.
PassDone(t) ==
    /\ Invoked(t) >= Len(SERVICES)
    /\ \/ runner[t].iteration >= 2
       \/ runner[t].iteration = 1 /\ runner[t].pc = "while"

\* The thread of t is in its except or finally block, or has ended.
RunnerLeft(t) == runner[t].pc \in {"except", "finally", "done", "dead"}

\* C11: start_task returns in the step that starts the thread, before the
\* thread has done anything; a started thread whose first store call does not
\* raise leads to a record with status Running and started_at set; and a
\* thread in its loop, unless it faults or its Event is set, leads to the end
\* of a pass in which every service was invoked.
C11_StartsAndRuns ==
    /\ [][\A t \in TaskIds :
            (ret'.op = "start_task" /\ ret'.task = t /\ ret'.result = "started") =>
                runner[t].pc = "none" /\ runner'[t].pc = "start"]_vars
    /\ \A t \in TaskIds :
            (runner[t].pc = "start") ~>
                \/ StatusIs(t, RUNNING) /\ Has(t, "started_at") /\ store[t].started_at # None
                \/ runner[t].pc = "dead"
    /\ \A t \in TaskIds :
            RunnerRunning(t) ~> (PassDone(t) \/ stop_event[t] \/ RunnerLeft(t))

\* C11 witness: a first pass has ended, all services invoked and recorded,
\* with no stop and no fault.
C11_Witness ==
    \E t \in TaskIds :
        /\ PassDone(t) /\ runner[t].pc = "while" /\ ~stop_event[t]
        /\ StatusIs(t, RUNNING) /\ store[t].started_at # None
        /\ Has(t, "total_requests") /\ store[t].total_requests = Len(SERVICES)

\* The thread of t is at the end of pass k, every service invoked in each
\* pass, with no fault and its Event not set.
AtEndOfPass(t, k) ==
    /\ runner[t].pc = "while"
    /\ runner[t].iteration = k
    /\ Invoked(t) = k * Len(SERVICES)
    /\ ~stop_event[t]

\* The record h shows k full passes.
ShowsPasses(h, k) ==
    /\ Exists(h)
    /\ Counter(h, "iterations") = k
    /\ Counter(h, "total_requests") = k * Len(SERVICES)
    /\ LET st == Get(h, "services_stats", EmptyStats) IN
        /\ DOMAIN st = ServiceNames
        /\ \A sv \in ServiceNames : st[sv].success + st[sv].failed = k

\* C12 (as claimed): when the Runner, neither stopped nor faulted, is at the
\* end of its pass k, the record has iterations = k, total_requests = 3k and
\* three services_stats entries with success + failed = k each.
C12_PassCounts ==
    \A t \in TaskIds : \A k \in 1..MaxRequests :
        AtEndOfPass(t, k) => ShowsPasses(store[t], k)

\* C13 (as claimed): get_task_info returns NotFound exactly when the store
\* holds no record of the id and a TaskInfo otherwise, fails in no other way,
\* and changes neither the store nor the registry.
C13_InfoTotal ==
    [][\A t \in TaskIds :
        (ret'.op = "get_task_info" /\ ret'.task = t) =>
            /\ ret'.result = IF Exists(store[t]) THEN "TaskInfo" ELSE "NotFound"
            /\ UNCHANGED <<store, active_tasks, stop_event>>]_vars

\* C14: after stop_task has returned success for a task, its Runner leads to
\* the end of its thread.
C14_RunnerEndsAfterStop ==
    \A t \in TaskIds : hist[t].stop_ok ~> (runner[t].pc = "done")

\* C14 witness: stop_task has returned success while the Runner was still in
\* its loop, an invocation pending.
C14_Witness ==
    \E t \in TaskIds :
        /\ ret = [op |-> "stop_task", task |-> t, result |-> "stopped"]
        /\ runner[t].pc = "send"
        /\ stop_event[t]

\* C15 (as claimed): the registry holds an entry only for a task whose thread
\* is about to start or still alive, whatever the way the thread ended.
C15_RegistryOnlyLive ==
    \A t \in active_tasks : ~RunnerExited(t)

\* This step is a store call of the thread of t that raises: the initial
\* write, the read after an invocation, or the progress write.
StoreCallFails(t) ==
    \/ runner[t].pc = "start" /\ runner'[t].pc \notin {"start", "client"}
    \/ runner[t].pc = "get" /\ runner'[t].pc \notin {"get", "update", "wait"}
    \/ runner[t].pc = "update" /\ runner'[t].pc \notin {"update", "wait"}

\* C16 (as claimed): a store call of the Runner that fails takes the Runner to
\* its fault path, where it attempts one write of status Error, stopped_at and
\* last_activity, and then exits; no Action is invoked after the failure.
C16_FaultPath ==
    [][\A t \in TaskIds :
        /\ StoreCallFails(t) => runner'[t].pc = "except"
        /\ (runner[t].pc = "except" /\ runner'[t].pc # "except") =>
                /\ runner'[t].pc = "finally"
                /\ store' = store \/ store' = update_task(t, ErrorUpdates)
        /\ runner[t].pc \in {"except", "finally", "done", "dead"} =>
                /\ Invoked(t)' = Invoked(t)
                /\ runner'[t].pc \in {"except", "finally", "done", "dead"}]_vars

\* The fields of the record of t that this step sets, adds or removes.
Changed(t) ==
    {f \in (DOMAIN store[t]) \cup (DOMAIN store'[t]) :
        \/ f \notin DOMAIN store[t]
        \/ f \notin DOMAIN store'[t]
        \/ store'[t][f] # store[t][f]}

ControlFields == {"status", "stopped_at"}

ProgressFields ==
    {"iterations", "total_requests", "successful_requests", "failed_requests",
     "last_activity", "services_stats"}

\* C17: stop_task writes status and stopped_at only; a progress write of the
\* Runner writes the six progress fields only; a step of the Runner that
\* changes the status is its first write (to Running) or the write of its
\* except block (to Error); leaving the loop on cancellation and the finally
\* block write nothing.
C17_DisjointWrites ==
    [][\A t \in TaskIds :
        /\ (ret'.op = "stop_task" /\ ret'.task = t /\ ret'.result = "stopped") =>
                /\ DOMAIN StopUpdates = ControlFields
                /\ Changed(t) \subseteq ControlFields
        /\ (runner[t].pc = "update" /\ runner'[t].pc = "wait") =>
                /\ DOMAIN ProgressUpdates(t) = ProgressFields
                /\ Changed(t) \subseteq ProgressFields
        /\ (runner'[t] # runner[t] /\ "status" \in Changed(t)) =>
                \/ runner[t].pc = "start" /\ store'[t].status = RUNNING
                \/ runner[t].pc = "except" /\ store'[t].status = ERROR
        /\ (runner'[t] # runner[t] /\ runner[t].pc \in {"while", "for", "wait", "finally"}) =>
                store' = store]_vars

\* C17 witness: stop_task has written Stopped over a record that holds the
\* Runner's progress, and the Runner has left on cancellation without writing.
C17_Witness ==
    \E t \in TaskIds :
        /\ hist[t].stop_ok /\ runner[t].pc = "done" /\ stop_event[t]
        /\ StatusIs(t, STOPPED)
        /\ Has(t, "total_requests") /\ store[t].total_requests >= 2
        /\ store[t].last_activity < store[t].stopped_at

\* Once the Event of t is set it stays set, the Runner does not get past the
\* cancellation check any more, and the only invocation it can still make is
\* the one whose check it had passed.
NoNewActionOnceSet(t) ==
    stop_event[t] =>
        /\ stop_event'[t]
        /\ runner'[t].pc = "send" => runner[t].pc = "send"
        /\ Invoked(t)' # Invoked(t) =>
                /\ runner[t].pc = "send" /\ runner'[t].pc = "get"
                /\ Invoked(t)' = Invoked(t) + 1

\* The progress write of this step counts the invocation just made.
CountsInvocation(t) ==
    /\ store'[t].total_requests = Get(runner[t].task, "total_requests", 0) + 1
    /\ store'[t].services_stats = runner[t].services_stats
    /\ store'[t].iterations = runner[t].iteration

\* C18 (as claimed): with its Event set the Runner starts no invocation but
\* the one whose check it had passed, and, no store call raising, that
\* invocation and any invocation not yet recorded when the Event was set is
\* counted in the record.
C18_InFlightCounted ==
    [][\A t \in TaskIds :
        /\ NoNewActionOnceSet(t)
        /\ (stop_event[t] /\ runner[t].pc = "get" /\ runner'[t].pc \notin {"get", "except"}) =>
                runner'[t].pc = "update"
        /\ (stop_event[t] /\ runner[t].pc = "update" /\ runner'[t].pc = "wait") =>
                CountsInvocation(t)]_vars

\* C18 (amended): with its Event set the Runner starts no invocation but the
\* one whose check it had passed; that invocation is not interrupted, and it
\* is counted in the record when the record exists at the Runner's read that
\* follows it and no store call raises; when there is no record at that read,
\* nothing is written for it.
C18_InFlightCountedIfRecord ==
    [][\A t \in TaskIds :
        /\ NoNewActionOnceSet(t)
        /\ (stop_event[t] /\ runner[t].pc = "get" /\ runner'[t].pc \notin {"get", "except"}) =>
                /\ runner'[t].pc = IF Exists(store[t]) THEN "update" ELSE "wait"
                /\ store' = store
        /\ (stop_event[t] /\ runner[t].pc = "update" /\ runner'[t].pc = "wait") =>
                CountsInvocation(t)]_vars

\* C18 witness: stop_task returned while the Runner had passed the check of
\* its second invocation; the Runner made it, recorded it and ended.
C18_Witness ==
    \E t \in TaskIds :
        /\ hist[t].stop_at = "checked"
        /\ runner[t].pc = "done"
        /\ Invoked(t) = 2
        /\ StatusIs(t, STOPPED)
        /\ Has(t, "total_requests") /\ store[t].total_requests = 2

\* The in-memory counts of this step are those before it with one failure
\* more for the service sv.
OneMoreFailed(t, sv) ==
    runner'[t].services_stats =
        [runner[t].services_stats EXCEPT ![sv] = [success |-> @.success, failed |-> @.failed + 1]]

\* C19: an invocation that ends in an unexpected exception does not take the
\* Runner to its fault path and is counted as a failure, in memory and in the
\* progress write (total_requests + 1, failed_requests + 1, successful_requests
\* and the status as they were), exactly as one that ends in a request error;
\* after it the loop goes on: the wait, and then, the Event not being set,
\* the next service of the pass.
C19_ExceptionIsFailure ==
    [][\A t \in TaskIds :
        /\ (runner[t].pc = "send" /\ runner'[t] # runner[t]) =>
                /\ runner'[t].pc = "get" /\ store' = store
                /\ runner'[t].response \in {"exception", "request_error"} =>
                        OneMoreFailed(t, SERVICES[runner[t].idx])
        /\ (runner[t].response = "exception" /\ runner[t].pc = "update" /\ runner'[t].pc = "wait") =>
                /\ store'[t].total_requests = Get(runner[t].task, "total_requests", 0) + 1
                /\ store'[t].failed_requests = Get(runner[t].task, "failed_requests", 0) + 1
                /\ store'[t].successful_requests = Get(runner[t].task, "successful_requests", 0)
                /\ store'[t].services_stats = runner[t].services_stats
                /\ "status" \notin Changed(t)
        /\ (runner[t].response = "exception" /\ runner[t].pc = "wait" /\ runner'[t] # runner[t]) =>
                runner'[t].pc = "for" /\ runner'[t].idx = runner[t].idx + 1
        /\ (runner[t].response = "exception" /\ runner[t].pc = "for" /\ runner'[t] # runner[t]
                /\ ~stop_event[t] /\ runner[t].idx <= Len(SERVICES)) =>
                runner'[t].pc = "send"]_vars

\* C19 witness: the first invocation ended in an exception, was recorded as a
\* failure, the task is still Running and the Runner is at the head of the
\* for loop for its second invocation.
C19_Witness ==
    \E t \in TaskIds :
        /\ runner[t].pc = "for" /\ runner[t].idx = 2 /\ ~stop_event[t]
        /\ runner[t].response = "exception"
        /\ StatusIs(t, RUNNING)
        /\ Has(t, "failed_requests")
        /\ store[t].failed_requests = 1 /\ store[t].total_requests = 1
        /\ store[t].services_stats[SERVICES[1]] = [success |-> 0, failed |-> 1]

\* Number of passes in which the thread of t has invoked every service.  (A
\* pass cut short is the last one, so all passes before it are full.)
CompletedPasses(t) == Invoked(t) \div Len(SERVICES)

\* C20 (as claimed): the persisted iterations is never ahead of the number of
\* completed passes, and equals it whenever the Runner is between two passes.
C20_IterationsAreCompletedPasses ==
    \A t \in TaskIds :
        Exists(store[t]) =>
            /\ Counter(store[t], "iterations") <= CompletedPasses(t)
            /\ (runner[t].pc = "while" /\ ~hist[t].deleted) =>
                    Counter(store[t], "iterations") = CompletedPasses(t)

\* C21 (as claimed): a record of a task never holds a total_requests lower
\* than one a record of the task has held before.
C21_CountersNeverDecrease ==
    \A t \in TaskIds :
        Has(t, "total_requests") => store[t].total_requests >= hist[t].top

\* The in-memory counts of this step are those before it with one response
\* more for the service sv and for no other.
OneMoreFor(t, sv) ==
    LET old == runner[t].services_stats
        new == runner'[t].services_stats
    IN  /\ \A o \in ServiceNames \ {sv} : new[o] = old[o]
        /\ new[sv].success + new[sv].failed = old[sv].success + old[sv].failed + 1

\* C22 (as claimed): the Runner's steps follow one another in this order: a
\* pass starts at the first service; an invocation is of the service whose
\* turn it is and of no other; unless a store call raises, it is followed by
\* its counter write, the write by the wait, and the wait by the turn of the
\* next service; an invocation is entered from the head of the for loop only,
\* with the Event not set; and when the head of the for loop sees the Event
\* set, nothing is invoked and nothing is written.
C22_RunnerOrder ==
    [][\A t \in TaskIds :
        runner'[t] # runner[t] =>
            /\ (runner[t].pc = "while" /\ runner'[t].pc = "for") => runner'[t].idx = 1
            /\ runner'[t].pc = "send" =>
                    /\ runner[t].pc = "for" /\ ~stop_event[t]
                    /\ runner'[t].idx = runner[t].idx /\ runner[t].idx \in 1..Len(SERVICES)
            /\ runner[t].pc = "for" =>
                    /\ runner'[t].pc \in {"send", "while"}
                    /\ Invoked(t)' = Invoked(t) /\ store' = store
                    /\ stop_event[t] => runner'[t].pc = "while"
            /\ runner[t].pc = "send" =>
                    /\ runner'[t].pc = "get"
                    /\ OneMoreFor(t, SERVICES[runner[t].idx])
            /\ (runner[t].pc = "get" /\ runner'[t].pc # "except") => runner'[t].pc = "update"
            /\ (runner[t].pc = "update" /\ runner'[t].pc # "except") =>
                    runner'[t].pc = "wait" /\ CountsInvocation(t)
            /\ runner[t].pc = "wait" =>
                    runner'[t].pc = "for" /\ runner'[t].idx = runner[t].idx + 1]_vars

\* C22 (amended): the same order, the counter write following the invocation
\* when the record exists at the Runner's read and being left out, with the
\* wait following at once, when it does not.
C22_RunnerOrderIfRecord ==
    [][\A t \in TaskIds :
        runner'[t] # runner[t] =>
            /\ (runner[t].pc = "while" /\ runner'[t].pc = "for") => runner'[t].idx = 1
            /\ runner'[t].pc = "send" =>
                    /\ runner[t].pc = "for" /\ ~stop_event[t]
                    /\ runner'[t].idx = runner[t].idx /\ runner[t].idx \in 1..Len(SERVICES)
            /\ runner[t].pc = "for" =>
                    /\ runner'[t].pc \in {"send", "while"}
                    /\ Invoked(t)' = Invoked(t) /\ store' = store
                    /\ stop_event[t] => runner'[t].pc = "while"
            /\ runner[t].pc = "send" =>
                    /\ runner'[t].pc = "get"
                    /\ OneMoreFor(t, SERVICES[runner[t].idx])
            /\ (runner[t].pc = "get" /\ runner'[t].pc # "except") =>
                    /\ runner'[t].pc = IF Exists(store[t]) THEN "update" ELSE "wait"
                    /\ store' = store
            /\ (runner[t].pc = "update" /\ runner'[t].pc # "except") =>
                    runner'[t].pc = "wait" /\ CountsInvocation(t)
            /\ runner[t].pc = "wait" =>
                    runner'[t].pc = "for" /\ runner'[t].idx = runner[t].idx + 1]_vars

\* C22 witness: the first service invoked and recorded, the wait over, the
\* head of the for loop has seen the Event set at the turn of the second
\* service: that one is neither invoked nor counted.
C22_Witness ==
    \E t \in TaskIds :
        /\ runner[t].pc = "while" /\ runner[t].idx = 2 /\ stop_event[t]
        /\ Invoked(t) = 1
        /\ Has(t, "total_requests") /\ store[t].total_requests = 1
        /\ store[t].services_stats[SERVICES[2]] = [success |-> 0, failed |-> 0]

\* The fields written at creation that identify the task.
IdentityFields == {"task_id", "phone_number", "interval", "created_at"}

\* C23 (as claimed): every record stored under the id of a created task holds
\* task_id, phone_number, interval and created_at, and no step changes them.
C23_IdentityKept ==
    [][\A t \in TaskIds :
        Exists(store'[t]) =>
            /\ IdentityFields \subseteq DOMAIN store'[t]
            /\ Get(store'[t], "task_id", None) = t
            /\ Exists(store[t]) =>
                    \A f \in IdentityFields : Get(store'[t], f, None) = Get(store[t], f, None)]_vars

\* C24 (as claimed): once delete_task has returned success for an id, the
\* store holds no record under it.
C24_DeletedStaysDeleted ==
    \A t \in TaskIds : hist[t].deleted => ~Exists(store[t])

\* C25 (as claimed): stop_task returns success at most once for a task, so
\* that status Stopped and stopped_at are written at most once.
C25_OneStopSucceeds ==
    [][\A t \in TaskIds :
        hist[t].stop_ok =>
            ~(calls' # calls /\ ret' = [op |-> "stop_task", task |-> t, result |-> "stopped"])]_vars

\* The thread of t has been started and has not ended.
RunnerAlive(t) == runner[t].pc \notin {"none", "done", "dead"}

\* C26: a live Runner whose task has no registry entry has its Event set; and
\* an entry is removed only by the locked step of stop_task, which sets the
\* Event, or by the Runner's finally block as the thread ends.
C26_UnregisteredIsSignalled ==
    /\ [](\A t \in TaskIds : (RunnerAlive(t) /\ t \notin active_tasks) => stop_event[t])
    /\ [][\A t \in TaskIds :
            (t \in active_tasks /\ t \notin active_tasks') =>
                \/ /\ stop_event'[t]
                   /\ \E k \in InProgress("stop_lock") : k.task = t /\ calls' # calls
                \/ runner[t].pc = "finally" /\ runner'[t].pc = "done"]_vars

\* C26 witness: stop_task has dropped the entry of a Runner that is about to
\* invoke a service; its Event is set.
C26_Witness ==
    \E t \in TaskIds :
        /\ runner[t].pc = "send" /\ t \notin active_tasks /\ stop_event[t]

====
